---- MODULE Spec2Model ----
(***************************************************************************)
(* Model of ssh_stress.py: the command line checks and the output of      *)
(* __main__, the round runner (stress_sftp / stress_ssh), the scheduler    *)
(* loop (_hammer), one connection attempt (_sftp / _ssh), the deadline     *)
(* timer thread (drop_all_timer) with the module global `wait` it writes,  *)
(* and the aggregator (_calculate_stats).                                  *)
(*                                                                         *)
(* Time is a discrete clock `now`.  A sleep of d ends at any instant that  *)
(* is at least d ticks after it began (time.sleep and asyncio.sleep give a *)
(* lower bound only).  loop_speed, the value 1/conns_per_sec of _hammer,   *)
(* is taken as a whole number of ticks.                                    *)
(***************************************************************************)
EXTENDS Integers, Sequences, FiniteSets, TLC

\* ------------------------------------------------------------------ bounds
MaxConns == 2
MaxConcurrent == 2
MaxRounds == 2
MaxTotalConns == 2
MaxGlobalWait == 1
MaxConnWait == 1
MaxPace == 1
MaxTime == 2
MaxStatConns == 3
MaxDur == 3

\* ------------------------------------------------------- program constants
\* Python's None in the auth_time / conn_time fields of a failed outcome.
None == -1

\* A --users argument naming two users, as the pieces names.split(",") yields.
Users == <<"root", "admin">>

\* The --users arguments explored, each as its comma separated pieces: two
\* names, the empty string, and a name followed by a blank piece.
UserArgs == {Users, <<"">>, <<"root", " ">>}

\* The --type arguments explored.
TypeArgs == {"sftp", "SFTP", "ssh", "scp"}

\* float('inf'), above every duration of the model.
Inf == 999999

\* Exception classes an attempt can raise while connecting or running its
\* operation; ValueError stands for the classes outside the except clause
\* (asyncssh.KeyImportError is one).
ErrTypes == {"OSError", "asyncssh.Error", "TimeoutError", "ValueError"}

\* The except clause of _sftp and _ssh.
Caught == {"OSError", "asyncssh.Error", "TimeoutError"}

Ids == 1..MaxConns
RoundIds == 1..MaxRounds

VARIABLES
    args,         \* the command line: scheduler settings and the other arguments
    mpc,          \* position of the main thread
    stress_round, \* loop variable of stress_sftp / stress_ssh
    report,       \* perf_times of stress_sftp: sequence of [name, times]
    count,        \* _hammer: attempts launched in this round
    tasks,        \* _hammer: ids of the tasks launched and not yet reaped
    perf_times,   \* _hammer: dict id -> outcome, in insertion order
    att,          \* the tasks, by round and id
    user_idx,     \* position of the cycle self.user
    wait,         \* the module global written by drop_all_timer
    wait_writer,  \* history: round whose timer thread wrote `wait` last
    timer,        \* the timer threads, one per round
    now,          \* the clock, counted from the start of the current round
    pace_until,   \* end of the pacing sleep of _hammer
    last_launch,  \* history: clock at the latest launch of this round, -1 if none
    stats,        \* __main__: the report returned by stress_sftp / stress_ssh
    exit_code,    \* sys.exit status, -1 while the process runs
    out_file,     \* what was written to args.output: <<>> or <<the report>>
    printed       \* what was printed at the end: <<>> or <<the data>>

mainvars == <<stats, exit_code, out_file, printed>>

vars == <<args, mpc, stress_round, report, count, tasks, perf_times, att,
          user_idx, wait, wait_writer, timer, now, pace_until, last_launch,
          mainvars>>

\* ----------------------------------------------------------- pure helpers
Digit(d) == <<"0", "1", "2", "3", "4", "5", "6", "7", "8", "9">>[d + 1]

RECURSIVE ToStr(_)
ToStr(n) == IF n < 10 THEN Digit(n) ELSE ToStr(n \div 10) \o Digit(n % 10)

\* f"round_{stress_round}"
RoundName(k) == "round_" \o ToStr(k)

\* A dict is a sequence of [k, v] entries in insertion order.
DictKeys(d) == {d[j].k : j \in DOMAIN d}

DictGet(d, key) == d[CHOOSE j \in DOMAIN d : d[j].k = key].v

\* d[key] = val: an existing key keeps its place, a new key goes last.
DictSet(d, key, val) ==
    IF key \in DictKeys(d)
    THEN [j \in DOMAIN d |-> IF d[j].k = key THEN [k |-> key, v |-> val] ELSE d[j]]
    ELSE Append(d, [k |-> key, v |-> val])

\* sorted(keys): ascending sequence of a set of integers.
RECURSIVE SortedSeq(_)
SortedSeq(S) ==
    IF S = {} THEN <<>>
    ELSE LET m == CHOOSE x \in S : \A y \in S : x <= y
         IN <<m>> \o SortedSeq(S \ {m})

\* Variant: the dict is stored in completion order.
SortDict_Unsorted(d) == d

\* {k: times[k] for k in sorted(times)}
SortDict(d) ==
    LET ks == SortedSeq(DictKeys(d))
    IN [j \in DOMAIN ks |-> [k |-> ks[j], v |-> DictGet(d, ks[j])]]

\* The orders in which `for task in done` can visit a set.
Orders(S) == {o \in [1..Cardinality(S) -> S] : \A a, b \in DOMAIN o : o[a] = o[b] => a = b}

\* ------------------------------------------------------------- outcomes
NoResult == [id |-> 0, success |-> FALSE, auth_time |-> None, conn_time |-> None,
             results |-> ""]

\* conn_stat of the success path.
SuccessStat(id, auth, total) ==
    [id |-> id, success |-> TRUE, auth_time |-> auth, conn_time |-> total,
     results |-> "result"]

\* conn_stat of the except path; results is str(e).
FailedStat(id, e) ==
    [id |-> id, success |-> FALSE, auth_time |-> None, conn_time |-> None,
     results |-> e]

NoTask == [st |-> "none", user |-> "", start |-> 0, auth |-> 0, wake |-> 0,
           held |-> "-", rel_by |-> 0, result |-> NoResult, exc |-> ""]

NoTimer == [st |-> "idle", arm_at |-> 0]

\* ------------------------------------------------------------- __main__
\* name.strip(), on the pieces explored.
Strip(name) == IF name = " " THEN "" ELSE name

NonBlank(name) == Strip(name) # ""

\* validate_names: the pieces whose strip() is not empty.
ValidateNames(pieces) == SelectSeq(pieces, NonBlank)

\* args.type.lower(), on the types explored.
Lower(t) == IF t = "SFTP" THEN "sftp" ELSE t

\* target_users handed to SSHstress.
TargetUsers == ValidateNames(args.users)

\* Variant: any credentials pass the constructor.
HasCredential_Any == TRUE

\* not (not ssh_pw and not ssh_key): ssh_key is '' unless the key file exists.
HasCredential == args.password # "" \/ args.key_exists

\* The match statement has a case for the type.
KnownType == Lower(args.type) \in {"sftp", "ssh"}

\* None of the sys.exit(2) of __main__ and SSHstress.__init__ is taken.
ConfigOk == /\ TargetUsers # <<>>
            /\ args.target # ""
            /\ HasCredential
            /\ KnownType

\* Variant: the cycle is indexed by the round's own counter.
NextUser_PerRound == TargetUsers[(count % Len(TargetUsers)) + 1]

\* next(self.user)
NextUser == TargetUsers[user_idx]

\* ------------------------------------------------------ _calculate_stats
\* A quotient a / b of Python, kept exact as numerator and denominator.
TrueDiv(a, b) == [num |-> a, den |-> b]

\* avg = 0 of the except branch.
Zero == [num |-> 0, den |-> 1]

PyMax(a, b) == IF b > a THEN b ELSE a

PyMin(a, b) == IF b < a THEN b ELSE a

\* min_auth_time = min_conn_time = float('inf')
InitMin == Inf

\* The per-round variables before the loop over round_data.values().
StartAcc == [total_auth_time |-> 0, total_conn_time |-> 0,
             max_auth_time |-> 0, max_conn_time |-> 0,
             min_auth_time |-> InitMin, min_conn_time |-> InitMin,
             total_failed |-> 0]

\* for data in round_data.values(), from position j on.
RECURSIVE Accumulate(_, _, _)
Accumulate(acc, round_data, j) ==
    IF j > Len(round_data) THEN acc
    ELSE LET data == round_data[j].v
             nxt == IF data.success
                    THEN [acc EXCEPT
                            !.total_auth_time = @ + data.auth_time,
                            !.max_auth_time = PyMax(@, data.auth_time),
                            !.min_auth_time = PyMin(@, data.auth_time),
                            !.total_conn_time = @ + data.conn_time,
                            !.max_conn_time = PyMax(@, data.conn_time),
                            !.min_conn_time = PyMin(@, data.conn_time)]
                    ELSE [acc EXCEPT !.total_failed = @ + 1]
         IN Accumulate(nxt, round_data, j + 1)

\* Variant: the divisor counts the failed outcomes too.
Divisor_All(total_conns, total_failed) == total_conns

\* ( total_conns - total_failed )
Divisor(total_conns, total_failed) == total_conns - total_failed

\* Variant: no except clause, the quotient by 0 is kept.
Averages_NoExcept(total_auth_time, total_conn_time, n) ==
    <<TrueDiv(total_auth_time, n), TrueDiv(total_conn_time, n)>>

\* try: the two quotients; except ZeroDivisionError: both are 0.
Averages(total_auth_time, total_conn_time, n) ==
    IF n = 0 THEN <<Zero, Zero>>
    ELSE <<TrueDiv(total_auth_time, n), TrueDiv(total_conn_time, n)>>

\* rounds_dict[round_name] of one round.
RoundStat(round_data) ==
    LET acc == Accumulate(StartAcc, round_data, 1)
        total_conns == Len(round_data)
        avg == Averages(acc.total_auth_time, acc.total_conn_time,
                        Divisor(total_conns, acc.total_failed))
    IN [avg_auth_time |-> avg[1], avg_conn_time |-> avg[2],
        max_auth_time |-> acc.max_auth_time, max_conn_time |-> acc.max_conn_time,
        min_auth_time |-> acc.min_auth_time, min_conn_time |-> acc.min_conn_time,
        failed_conns |-> acc.total_failed,
        conn_data |-> round_data]

\* _calculate_stats(perf_times, ...): the header and one entry per round, in
\* the order of perf_times.  conns_per_sec and the graph are left out.
CalculateStats(perf) ==
    [stress_type |-> IF Lower(args.type) = "sftp" THEN "SFTP" ELSE "SSH",
     rounds |-> args.rounds,
     conns_per_round |-> args.conns,
     total_conns |-> args.conns * args.rounds,
     conn_wait |-> args.conn_wait,
     global_wait |-> args.global_wait,
     round_data |-> [j \in DOMAIN perf |-> [k |-> perf[j].k, v |-> RoundStat(perf[j].v)]]]

\* stats before stress_sftp / stress_ssh has returned.
NoStats == [round_data |-> <<>>]

\* round_stat.pop("conn_data", None)
Pop(round_stat) == [f \in DOMAIN round_stat \ {"conn_data"} |-> round_stat[f]]

\* The loop of __main__ that pops conn_data from every round of stats.
PopAll(round_data) ==
    [j \in DOMAIN round_data |-> [k |-> round_data[j].k, v |-> Pop(round_data[j].v)]]

\* ------------------------------------------------------------------ Init
\* The scheduler settings explored: conns * rounds is total_conns of the report.
SchedArgs ==
    {a \in [conns : 0..MaxConns,
            conn_wait : 0..MaxConnWait,
            global_wait : 0..MaxGlobalWait,
            loop_speed : 1..MaxPace,
            rounds : 1..MaxRounds,
            max_concurrent_tasks : 1..MaxConcurrent] :
        a.conns * a.rounds <= MaxTotalConns}

\* The other arguments explored; password "" and target "" stand for absent.
CliArgs == [users : UserArgs, target : {"", "host"}, key_exists : BOOLEAN,
            password : {"", "pw"}, type : TypeArgs, output : {"", "out.json"}]

DefaultCli == [users |-> Users, target |-> "host", key_exists |-> TRUE,
               password |-> "", type |-> "sftp", output |-> "out.json"]

\* One round without waits, for the command lines that vary the other arguments.
PlainSched == {a \in SchedArgs : /\ a.rounds = 1
                                 /\ a.conn_wait = 0
                                 /\ a.global_wait = 0
                                 /\ a.loop_speed = 1
                                 /\ a.max_concurrent_tasks = 1}

CommandLine(a, c) ==
    [conns |-> a.conns, conn_wait |-> a.conn_wait, global_wait |-> a.global_wait,
     loop_speed |-> a.loop_speed, rounds |-> a.rounds,
     max_concurrent_tasks |-> a.max_concurrent_tasks,
     users |-> c.users, target |-> c.target, key_exists |-> c.key_exists,
     password |-> c.password, type |-> c.type, output |-> c.output]

\* The command lines explored.
Configs == {CommandLine(a, DefaultCli) : a \in SchedArgs}
           \cup {CommandLine(a, c) : a \in PlainSched, c \in CliArgs}

\* The state shared by every start: nothing has run yet.
Fresh ==
    /\ stats = NoStats
    /\ exit_code = -1
    /\ out_file = <<>>
    /\ printed = <<>>

Init ==
    /\ args \in Configs
    /\ Fresh
    /\ mpc = "main"
    /\ stress_round = 0
    /\ report = <<>>
    /\ count = 0
    /\ tasks = {}
    /\ perf_times = <<>>
    /\ att = [r \in RoundIds |-> [i \in Ids |-> NoTask]]
    /\ user_idx = 1
    /\ wait = "unset"
    /\ wait_writer = 0
    /\ timer = [r \in RoundIds |-> NoTimer]
    /\ now = 0
    /\ pace_until = 0
    /\ last_launch = -1

\* ------------------------------------------------------------ conditions
\* Variant: the loop stops once everything is launched (`or tasks` dropped).
LoopCond_NoDrain == count < args.conns

\* while count < conns or tasks
LoopCond == count < args.conns \/ tasks # {}

\* Variant: <= for < in the ceiling test.
CanLaunch_OffByOne ==
    count < args.conns /\ Cardinality(tasks) <= args.max_concurrent_tasks

\* while count < conns and len(tasks) < self.max_concurrent_tasks
CanLaunch == count < args.conns /\ Cardinality(tasks) < args.max_concurrent_tasks

\* Variant: no pacing sleep.
PaceOver_NoSleep == TRUE

\* await asyncio.sleep(loop_speed) has returned
PaceOver == now >= pace_until

\* Variant: the timer thread clears the flag without sleeping.
TimerElapsed_NoSleep(r) == TRUE

\* time.sleep(n) of the timer thread of round r has returned
TimerElapsed(r) == now >= timer[r].arm_at + args.global_wait

\* except (OSError, asyncssh.Error, asyncio.TimeoutError)
Handles(e) == e \in Caught

\* Variant: return_when=ALL_COMPLETED.
DoneTasks_All ==
    IF \A i \in tasks : att[stress_round][i].st \in {"done", "raised"} THEN tasks ELSE {}

\* The tasks asyncio.wait(..., FIRST_COMPLETED) hands back as done.
DoneTasks == {i \in tasks : att[stress_round][i].st \in {"done", "raised"}}

\* The event loop runs tasks only while _hammer is suspended in an await.
Suspended == mpc \in {"reap", "pace"}

Running(st) == st \in {"conn", "op", "poll", "sleep"}

\* asyncio.run cancels the tasks still pending when its coroutine ends.
CancelPending(row) ==
    [i \in Ids |-> IF Running(row[i].st) THEN [NoTask EXCEPT !.st = "cancelled"]
                   ELSE row[i]]

\* What is left of a round's tasks once its event loop is closed.
Closed(row) == [i \in Ids |-> [NoTask EXCEPT !.st = row[i].st]]

\* Variant: the connection is closed at once (sleep of 0).
WakeAt_Now == now

\* The earliest instant at which await asyncio.sleep(conn_wait) returns.
WakeAt == now + args.conn_wait

\* Variant: the counter is kept from the round before.
FreshCount_Kept == count

\* count = 0 at the top of _hammer
FreshCount == 0

\* Variant: only the first done task is stored.
Collect_FirstOnly(d, o, j) ==
    IF Len(o) = 0 THEN d
    ELSE LET res == att[stress_round][o[1]].result
         IN DictSet(d, res.id, res)

\* perf_times[results['id']] = results, for the tasks of o from position j on.
RECURSIVE Collect(_, _, _)
Collect(d, o, j) ==
    IF j > Len(o) THEN d
    ELSE LET res == att[stress_round][o[j]].result
         IN Collect(DictSet(d, res.id, res), o, j + 1)

\* The clock restarts at 0 with every round: the arming instant of a timer
\* thread that is still asleep is carried over to the new origin.
Rebase(t) == IF t.st = "armed" THEN [t EXCEPT !.arm_at = @ - now]
             ELSE [t EXCEPT !.arm_at = 0]

\* ------------------------------------------------------------- __main__
\* One of the sys.exit(2): no user left by validate_names, no target, no key
\* file and no password (in SSHstress.__init__), or no case for the type.
MainReject ==
    /\ mpc = "main"
    /\ ~ConfigOk
    /\ mpc' = "exit"
    /\ exit_code' = 2
    /\ UNCHANGED <<stats, out_file, printed, args, stress_round, report, count, tasks,
                   perf_times, att, user_idx, wait, wait_writer, timer, now,
                   pace_until, last_launch>>

\* The checks pass, SSHstress is constructed and the match statement calls
\* stress_sftp or stress_ssh.
MainDispatch ==
    /\ mpc = "main"
    /\ ConfigOk
    /\ mpc' = "for"
    /\ UNCHANGED <<mainvars, args, stress_round, report, count, tasks, perf_times, att,
                   user_idx, wait, wait_writer, timer, now, pace_until,
                   last_launch>>

\* The rest of the case after stress_sftp / stress_ssh has returned.  sftp:
\* json.dump(stats) to args.output if given, then conn_data is popped from
\* every round and the rounds are printed.  ssh: stats is printed.
Output ==
    /\ mpc = "done"
    /\ IF Lower(args.type) = "sftp"
       THEN /\ out_file' = IF args.output # "" THEN <<stats>> ELSE out_file
            /\ stats' = [stats EXCEPT !.round_data = PopAll(@)]
            /\ printed' = <<PopAll(stats.round_data)>>
       ELSE /\ out_file' = out_file
            /\ stats' = stats
            /\ printed' = <<stats>>
    /\ mpc' = "exit"
    /\ exit_code' = 0
    /\ UNCHANGED <<args, stress_round, report, count, tasks, perf_times, att,
                   user_idx, wait, wait_writer, timer, now, pace_until,
                   last_launch>>

\* ------------------------------------------------- stress_sftp / stress_ssh
\* for stress_round in range(rounds): ... asyncio.run(self._hammer(...)),
\* up to the while loop of _hammer: the timer thread is started, count,
\* tasks and perf_times are fresh.
StartRound ==
    /\ mpc = "for"
    /\ stress_round < args.rounds
    /\ stress_round' = stress_round + 1
    /\ timer' = [r \in RoundIds |->
                   IF r = stress_round + 1 THEN [st |-> "started", arm_at |-> 0]
                   ELSE Rebase(timer[r])]
    /\ now' = 0
    /\ count' = FreshCount
    /\ tasks' = {}
    /\ perf_times' = <<>>
    /\ pace_until' = 0
    /\ last_launch' = -1
    /\ mpc' = "loop"
    /\ UNCHANGED <<mainvars, args, report, att, user_idx, wait, wait_writer>>

\* The for loop is over: return self._calculate_stats(...).
Finish ==
    /\ mpc = "for"
    /\ stress_round >= args.rounds
    /\ mpc' = "done"
    /\ stats' = CalculateStats(report)
    /\ UNCHANGED <<exit_code, out_file, printed, args, stress_round, report, count,
                   tasks, perf_times, att, user_idx, wait, wait_writer, timer, now,
                   pace_until, last_launch>>

\* ------------------------------------------------------------------ _hammer
\* The outer while condition holds: wait for a completion if there are tasks.
LoopEnter ==
    /\ mpc = "loop"
    /\ LoopCond
    /\ mpc' = IF tasks # {} THEN "reap" ELSE "launch"
    /\ UNCHANGED <<mainvars, args, stress_round, report, count, tasks, perf_times, att,
                   user_idx, wait, wait_writer, timer, now, pace_until,
                   last_launch>>

\* done, tasks = await asyncio.wait(tasks, return_when=FIRST_COMPLETED), then
\* every done task's result is stored under its id.
Reap ==
    /\ mpc = "reap"
    /\ DoneTasks # {}
    /\ \A i \in DoneTasks : att[stress_round][i].st = "done"
    /\ \E o \in Orders(DoneTasks) : perf_times' = Collect(perf_times, o, 1)
    /\ tasks' = tasks \ DoneTasks
    /\ att' = [att EXCEPT ![stress_round] =
                 [i \in Ids |-> IF i \in DoneTasks THEN [NoTask EXCEPT !.st = "reaped"]
                                ELSE @[i]]]
    /\ mpc' = "launch"
    /\ UNCHANGED <<mainvars, args, stress_round, report, count, user_idx, wait, wait_writer,
                   timer, now, pace_until, last_launch>>

\* task.result() re-raises the exception of a done task: it leaves _hammer,
\* asyncio.run and stress_sftp, and the run ends without a report.
ReapRaise ==
    /\ mpc = "reap"
    /\ \E i \in DoneTasks : att[stress_round][i].st = "raised"
    /\ mpc' = "crashed"
    /\ tasks' = {}
    /\ perf_times' = <<>>
    /\ att' = [att EXCEPT ![stress_round] = Closed(CancelPending(@))]
    /\ UNCHANGED <<mainvars, args, stress_round, report, count, user_idx, wait, wait_writer,
                   timer, now, pace_until, last_launch>>

\* count += 1; tasks.add(asyncio.create_task(self._sftp(count, next(self.user),
\* conn_wait, ...))); then the pacing sleep begins, and with it the new task
\* runs up to its first await: start_time = time.perf_counter(), connect.
Launch ==
    /\ mpc = "launch"
    /\ CanLaunch
    /\ count' = count + 1
    /\ tasks' = tasks \cup {count + 1}
    /\ att' = [att EXCEPT ![stress_round][count + 1] =
                 [NoTask EXCEPT !.st = "conn", !.user = NextUser, !.start = now]]
    /\ user_idx' = (user_idx % Len(TargetUsers)) + 1
    /\ pace_until' = now + args.loop_speed
    /\ last_launch' = now
    /\ mpc' = "pace"
    /\ UNCHANGED <<mainvars, args, stress_round, report, perf_times, wait, wait_writer,
                   timer, now>>

\* await asyncio.sleep(loop_speed) returns: back to the inner while condition.
PaceWake ==
    /\ mpc = "pace"
    /\ PaceOver
    /\ mpc' = "launch"
    /\ UNCHANGED <<mainvars, args, stress_round, report, count, tasks, perf_times, att,
                   user_idx, wait, wait_writer, timer, now, pace_until,
                   last_launch>>

\* The inner while condition fails: back to the outer while condition.
LaunchExit ==
    /\ mpc = "launch"
    /\ ~CanLaunch
    /\ mpc' = "loop"
    /\ UNCHANGED <<mainvars, args, stress_round, report, count, tasks, perf_times, att,
                   user_idx, wait, wait_writer, timer, now, pace_until,
                   last_launch>>

\* The outer while condition fails: return perf_times; stress_sftp sorts it
\* by id and stores it under the round's name.  asyncio.run closes the loop.
HammerReturn ==
    /\ mpc = "loop"
    /\ ~LoopCond
    /\ report' = DictSet(report, RoundName(stress_round), SortDict(perf_times))
    /\ att' = [att EXCEPT ![stress_round] = Closed(CancelPending(@))]
    /\ tasks' = {}
    /\ mpc' = "for"
    /\ UNCHANGED <<mainvars, args, stress_round, count, perf_times, user_idx, wait,
                   wait_writer, timer, now, pace_until, last_launch>>

\* ------------------------------------------------------------ _sftp / _ssh
\* _ssh is _sftp with conn.run('dir') for sftp.listdir(sftp_ls): the two are
\* one attempt here.
\* The task of attempt i of the current round.
Task(i) == att[stress_round][i]

SetTask(i, t) ==
    /\ att' = [att EXCEPT ![stress_round][i] = t]
    /\ UNCHANGED <<mainvars, args, mpc, stress_round, report, count, tasks, perf_times,
                   user_idx, wait, wait_writer, timer, now, pace_until,
                   last_launch>>

\* The outcome of an exception e raised inside the try block: the except
\* clause returns a failed conn_stat, any other class ends the task with e.
Raised(i, e) ==
    IF Handles(e)
    THEN [Task(i) EXCEPT !.st = "done", !.result = FailedStat(i, e)]
    ELSE [Task(i) EXCEPT !.st = "raised", !.exc = e]

\* conn.close(); total_time = time.perf_counter() - start_time; return conn_stat
Closing(i, how, by) ==
    [Task(i) EXCEPT !.st = "done", !.held = how, !.rel_by = by, !.wake = 0,
                    !.result = SuccessStat(i, Task(i).auth, now - Task(i).start)]

\* asyncssh.connect(...) returned: auth_time = time.perf_counter() - start_time,
\* then the operation (sftp.listdir / conn.run) is awaited under wait_for.
Connected(i) ==
    /\ Suspended /\ i \in tasks
    /\ Task(i).st = "conn"
    /\ SetTask(i, [Task(i) EXCEPT !.st = "op", !.auth = now - Task(i).start])

\* connect, authentication or the operation raises e.
Fail(i, e) ==
    /\ Suspended /\ i \in tasks
    /\ Task(i).st \in {"conn", "op"}
    /\ SetTask(i, Raised(i, e))

\* The operation returned; `if wait:` is evaluated.  Reading the global
\* before any timer thread has assigned it raises NameError.
OpDone(i) ==
    /\ Suspended /\ i \in tasks
    /\ Task(i).st = "op"
    /\ SetTask(i, CASE wait = "unset" -> Raised(i, "NameError")
                    [] wait = "True"  -> [Task(i) EXCEPT !.st = "poll"]
                    [] wait = "False" -> [Task(i) EXCEPT !.st = "sleep",
                                                         !.wake = WakeAt])

\* while wait: await asyncio.sleep(0.1) -- the loop sees wait false and ends.
PollRelease(i) ==
    /\ Suspended /\ i \in tasks
    /\ Task(i).st = "poll"
    /\ wait = "False"
    /\ SetTask(i, Closing(i, "deadline", wait_writer))

\* await asyncio.sleep(conn_wait) returns.
SleepDone(i) ==
    /\ Suspended /\ i \in tasks
    /\ Task(i).st = "sleep"
    /\ now >= Task(i).wake
    /\ SetTask(i, Closing(i, "conn_wait", 0))

\* ---------------------------------------------------------- drop_all_timer
\* The thread of round r runs up to its sleep: wait=False and return when
\* n == 0, wait=True otherwise.
TimerRun(r) ==
    /\ timer[r].st = "started"
    /\ IF args.global_wait = 0
       THEN /\ wait' = "False"
            /\ timer' = [timer EXCEPT ![r].st = "finished"]
       ELSE /\ wait' = "True"
            /\ timer' = [timer EXCEPT ![r] = [st |-> "armed", arm_at |-> now]]
    /\ wait_writer' = r
    /\ UNCHANGED <<mainvars, args, mpc, stress_round, report, count, tasks, perf_times, att,
                   user_idx, now, pace_until, last_launch>>

\* time.sleep(n) returns: wait=False.
TimerFire(r) ==
    /\ timer[r].st = "armed"
    /\ TimerElapsed(r)
    /\ wait' = "False"
    /\ wait_writer' = r
    /\ timer' = [timer EXCEPT ![r].st = "finished"]
    /\ UNCHANGED <<mainvars, args, mpc, stress_round, report, count, tasks, perf_times, att,
                   user_idx, now, pace_until, last_launch>>

\* -------------------------------------------------------------------- time
\* The code between two awaits of the main thread takes less than a tick.
Tick ==
    /\ Suspended
    /\ now < MaxTime
    /\ now' = now + 1
    /\ UNCHANGED <<mainvars, args, mpc, stress_round, report, count, tasks, perf_times, att,
                   user_idx, wait, wait_writer, timer, pace_until,
                   last_launch>>

Next ==
    \/ MainReject
    \/ MainDispatch
    \/ Output
    \/ StartRound
    \/ Finish
    \/ LoopEnter
    \/ Reap
    \/ ReapRaise
    \/ Launch
    \/ PaceWake
    \/ LaunchExit
    \/ HammerReturn
    \/ \E i \in Ids : Connected(i)
    \/ \E i \in Ids, e \in ErrTypes : Fail(i, e)
    \/ \E i \in Ids : OpDone(i)
    \/ \E i \in Ids : PollRelease(i)
    \/ \E i \in Ids : SleepDone(i)
    \/ \E r \in RoundIds : TimerRun(r)
    \/ \E r \in RoundIds : TimerFire(r)
    \/ Tick

Spec == Init /\ [][Next]_vars

\* ------------------------------------------- _calculate_stats on its own
\* What an attempt can return: a failure, or a success with its two
\* durations, up to MaxDur, the connection time not below the authentication
\* time.
Shapes ==
    {[success |-> FALSE, auth |-> 0, total |-> 0]}
    \cup {[success |-> TRUE, auth |-> a, total |-> t] :
             a \in 0..MaxDur, t \in 0..MaxDur}

StatOutcome(id, sh) ==
    IF sh.success THEN SuccessStat(id, sh.auth, sh.total) ELSE FailedStat(id, "OSError")

\* The sorted mapping a round stores when its attempts return the shapes f.
RoundData(f) == [j \in DOMAIN f |-> [k |-> j, v |-> StatOutcome(j, f[j])]]

\* The state in which stress_sftp leaves its for loop after one round of up
\* to MaxStatConns attempts.
StatsInit ==
    \E n \in 0..MaxStatConns : \E f \in [1..n -> Shapes] :
        /\ \A j \in 1..n : f[j].auth <= f[j].total
        /\ args = CommandLine([conns |-> n, conn_wait |-> 0,
                               global_wait |-> 0, loop_speed |-> 1, rounds |-> 1,
                               max_concurrent_tasks |-> 1], DefaultCli)
        /\ Fresh
        /\ mpc = "for"
        /\ stress_round = 1
        /\ report = <<[k |-> RoundName(1), v |-> RoundData(f)]>>
        /\ count = n
        /\ tasks = {}
        /\ perf_times = RoundData(f)
        /\ att = [r \in RoundIds |-> [i \in Ids |-> NoTask]]
        /\ user_idx = (n % Len(Users)) + 1
        /\ wait = "False"
        /\ wait_writer = 1
        /\ timer = [r \in RoundIds |-> IF r = 1 THEN [NoTimer EXCEPT !.st = "finished"]
                                       ELSE NoTimer]
        /\ now = 0
        /\ pace_until = 0
        /\ last_launch = -1

StatsNext == Finish \/ Output

StatsSpec == StatsInit /\ [][StatsNext]_vars

\* ================================================================ claims
\* The tasks of the current round (none before the first round).
CurRow == IF stress_round = 0 THEN [i \in Ids |-> NoTask] ELSE att[stress_round]

\* Launched and not yet completed.
Outstanding == {i \in Ids : Running(CurRow[i].st)}

\* Every id launched in the current round.
Launched == {i \in Ids : CurRow[i].st # "none"}

InRound == stress_round >= 1 /\ mpc # "crashed"

\* C1: during a round, the attempts launched and not yet completed, and the
\* tasks launched and not yet reaped, never number more than
\* max_concurrent_tasks.
C1_Ceiling ==
    /\ Cardinality(Outstanding) <= args.max_concurrent_tasks
    /\ Cardinality(tasks) <= args.max_concurrent_tasks

\* The ceiling is reached while attempts are still to be launched.
C1_Witness ==
    /\ Cardinality(Outstanding) = args.max_concurrent_tasks
    /\ count < args.conns
    /\ mpc = "launch"

\* C2: when _hammer has returned, its mapping holds exactly conns outcomes,
\* one under each id 1..conns; and while it runs every launched attempt is
\* either still in tasks or has exactly one entry, so none is lost or
\* overwritten.
C2_AllCollected ==
    InRound =>
        /\ DictKeys(perf_times) \cup tasks = 1..count
        /\ DictKeys(perf_times) \cap tasks = {}
        /\ Len(perf_times) = Cardinality(DictKeys(perf_times))
        /\ \A j \in DOMAIN perf_times : perf_times[j].v.id = perf_times[j].k
        /\ mpc \in {"for", "done"} =>
              /\ Len(perf_times) = args.conns
              /\ DictKeys(perf_times) = 1..args.conns
              /\ Len(DictGet(report, RoundName(stress_round))) = args.conns

\* A round of two attempts has returned with a success and a failure, the
\* second attempt collected first.
C2_Witness ==
    /\ mpc = "for" /\ stress_round >= 1
    /\ Len(perf_times) = 2
    /\ perf_times[1].k = 2
    /\ perf_times[1].v.success /\ ~perf_times[2].v.success

\* C3: with global_wait > 0 no attempt ever sleeps conn_wait.
C3_NeverConnWait ==
    args.global_wait > 0 =>
        \A i \in Ids : CurRow[i].st # "sleep" /\ CurRow[i].held # "conn_wait"

C5_ReleasedAfterWait ==
    args.global_wait > 0 =>
        \A i \in Ids : (CurRow[i].st = "done" /\ CurRow[i].held = "deadline") =>
            CurRow[i].start + CurRow[i].result.conn_time >= args.global_wait

\* C6: whatever an attempt raises becomes a failed outcome; no task ends with
\* an exception and none reaches the scheduler loop.
C6_NoPropagation ==
    /\ mpc # "crashed"
    /\ \A i \in Ids : CurRow[i].st # "raised"

\* C7: in every round the ids launched so far are exactly 1..count, the next
\* id being count + 1; the round ends with the ids 1..conns.
C7_Ids ==
    InRound =>
        /\ Launched = 1..count
        /\ count <= args.conns
        /\ \A j \in DOMAIN perf_times : perf_times[j].k \in 1..count
        /\ mpc \in {"for", "done"} => Launched = 1..args.conns

\* The second round has launched its first attempt, with id 1.
C7_Witness ==
    /\ stress_round = 2 /\ mpc = "pace"
    /\ count = 1
    /\ CurRow[1].st = "conn"

\* C8: a launch comes at least loop_speed after the launch before it, so the
\* k-th launch of a round comes at least (k-1) * loop_speed after its start.
C8_Pacing ==
    /\ [][(mpc = "launch" /\ mpc' = "pace" /\ last_launch >= 0)
              => now >= last_launch + args.loop_speed]_vars
    /\ [](count >= 1 => last_launch >= (count - 1) * args.loop_speed)

\* The second launch came after a reap, in a later iteration of the outer loop.
C8_Witness ==
    /\ args.max_concurrent_tasks = 1
    /\ count = 2 /\ mpc = "pace"
    /\ DictKeys(perf_times) = {1}

\* C9: every attempt of an earlier round has completed and been collected,
\* and the outcomes of the current round are those of its own attempts.
C9_NoOverlap ==
    InRound =>
        /\ \A r \in 1..(stress_round - 1) : \A i \in Ids :
              att[r][i].st = IF i <= args.conns THEN "reaped" ELSE "none"
        /\ mpc \notin {"for", "done"} =>
              DictKeys(perf_times) = {i \in Ids : CurRow[i].st = "reaped"}

\* An attempt of round 2 is in flight, round 1 fully collected.
C9_Witness ==
    /\ stress_round = 2
    /\ Outstanding # {}
    /\ att[1][1].st = "reaped"

\* C10: a run of N rounds ends with the N entries round_1..round_N, in order.
C10_AllRounds ==
    mpc \in {"done", "crashed"} =>
        /\ Len(report) = args.rounds
        /\ \A k \in 1..Len(report) : report[k].k = RoundName(k)

\* C11: with global_wait = 0 no timer thread ever sets the flag, and every
\* successful attempt, in every round, keeps its connection open for conn_wait
\* after its operation: its conn_time is at least auth_time + conn_wait.
C11_FullConnWait ==
    args.global_wait = 0 =>
        /\ wait # "True"
        /\ \A r \in RoundIds : timer[r].st # "armed"
        /\ \A i \in Ids : CurRow[i].st # "poll"
        /\ \A i \in Ids : (CurRow[i].st = "done" /\ CurRow[i].result.success) =>
              /\ CurRow[i].held = "conn_wait"
              /\ CurRow[i].result.conn_time >=
                     CurRow[i].result.auth_time + args.conn_wait
        /\ \A j \in DOMAIN perf_times : perf_times[j].v.success =>
              perf_times[j].v.conn_time >= args.conn_wait
        /\ \A k \in DOMAIN report : \A j \in DOMAIN report[k].v :
              report[k].v[j].v.success => report[k].v[j].v.conn_time >= args.conn_wait

\* A successful attempt of round 2 has closed after a conn_wait of 1, no
\* deadline set.
C11_Witness ==
    /\ args.global_wait = 0
    /\ args.conn_wait = 1
    /\ stress_round = 2
    /\ \E i \in Ids : /\ CurRow[i].st = "done"
                      /\ CurRow[i].result.success
                      /\ CurRow[i].result.conn_time >= 1

\* C16: at most one timer thread is alive (started and not yet through its
\* last write of the flag) at any moment of a run.
TimerAlive(r) == timer[r].st \in {"started", "armed"}

C16_OneTimer == Cardinality({r \in RoundIds : TimerAlive(r)}) <= 1

BlockedOnOne ==
    /\ mpc = "reap"
    /\ count < args.conns
    /\ Cardinality(tasks) = 1
    /\ \A i \in tasks : Running(CurRow[i].st)

Ascending(d) == \A a, b \in DOMAIN d : a < b => d[a].k < d[b].k

\* Two dicts hold the same key-value pairs.
SamePairs(d, e) ==
    /\ Len(d) = Len(e)
    /\ {<<d[j].k, d[j].v>> : j \in DOMAIN d} = {<<e[j].k, e[j].v>> : j \in DOMAIN e}

\* C19: the mapping stored for a round and handed to _calculate_stats is in
\* ascending id order and holds the pairs _hammer collected, whatever the
\* order in which the attempts completed.
C19_SortedById ==
    /\ \A k \in DOMAIN report : Ascending(report[k].v)
    /\ (mpc = "for" /\ stress_round >= 1) =>
           SamePairs(DictGet(report, RoundName(stress_round)), perf_times)
    /\ mpc = "done" =>
           /\ Len(stats.round_data) = Len(report)
           /\ \A k \in DOMAIN report :
                 /\ stats.round_data[k].k = report[k].k
                 /\ stats.round_data[k].v.conn_data = report[k].v
                 /\ Ascending(stats.round_data[k].v.conn_data)

\* A round has returned whose attempt 2 was collected before attempt 1.
C19_Witness ==
    /\ mpc = "for"
    /\ stress_round >= 1
    /\ Len(perf_times) = 2
    /\ perf_times[1].k = 2
    /\ perf_times[2].k = 1

\* The user of the j-th attempt launched by the instance.
UserOf(j) == TargetUsers[((j - 1) % Len(TargetUsers)) + 1]

\* C20: the attempt with id i of round r is the ((r-1)*conns + i)-th of the
\* run and gets the user at that position of the cycle; the cycle is not
\* restarted at a round boundary.
C20_RoundRobin ==
    stress_round >= 1 =>
        /\ user_idx = (((stress_round - 1) * args.conns + count) % Len(TargetUsers)) + 1
        /\ \A i \in Ids : CurRow[i].user # "" =>
              CurRow[i].user = UserOf((stress_round - 1) * args.conns + i)

\* With two users and one attempt per round, attempt 1 of round 2 runs as
\* the second user.
C20_Witness ==
    /\ stress_round = 2
    /\ args.conns = 1
    /\ TargetUsers = Users
    /\ CurRow[1].user = "admin"

\* C14: a run that completes with --output given has written the report as
\* _calculate_stats returned it, conn_data of every round included.
C14_FileWritten ==
    (mpc = "exit" /\ exit_code = 0 /\ args.output # "") =>
        out_file = <<CalculateStats(report)>>

\* The command line has one of the four configuration errors.
ConfigError ==
    \/ (~args.key_exists /\ args.password = "")
    \/ args.type \notin {"sftp", "SFTP", "ssh"}
    \/ args.target = ""
    \/ \A j \in DOMAIN args.users : args.users[j] \in {"", " "}

AllFailed(round_data) == \A j \in DOMAIN round_data : ~round_data[j].v.success

\* C12: for a round without any success, empty or not, _calculate_stats
\* returns averages 0, maxima 0, minima float('inf') and failed_conns equal to
\* the number of outcomes, which is conns.
C12_NoSuccess ==
    mpc = "done" =>
        /\ Len(stats.round_data) = Len(report)
        /\ \A k \in DOMAIN report : AllFailed(report[k].v) =>
              LET st == stats.round_data[k].v
              IN /\ st.avg_auth_time = Zero /\ st.avg_conn_time = Zero
                 /\ st.max_auth_time = 0 /\ st.max_conn_time = 0
                 /\ st.min_auth_time = Inf /\ st.min_conn_time = Inf
                 /\ st.failed_conns = Len(report[k].v)
                 /\ st.failed_conns = args.conns

\* The statistics of a round of two failed attempts have been computed.
C12_Witness ==
    /\ mpc = "done"
    /\ Len(report[1].v) = 2
    /\ AllFailed(report[1].v)
    /\ stats.round_data[1].v.failed_conns = 2

\* The positions of the successful outcomes of a round.
Successes(round_data) == {j \in DOMAIN round_data : round_data[j].v.success}

RECURSIVE SumAuth(_, _)
SumAuth(round_data, S) ==
    IF S = {} THEN 0
    ELSE LET j == CHOOSE x \in S : TRUE
         IN round_data[j].v.auth_time + SumAuth(round_data, S \ {j})

RECURSIVE SumConn(_, _)
SumConn(round_data, S) ==
    IF S = {} THEN 0
    ELSE LET j == CHOOSE x \in S : TRUE
         IN round_data[j].v.conn_time + SumConn(round_data, S \ {j})

\* q is the quotient total / n, n not 0.
IsMean(q, total, n) == q.den # 0 /\ q.num * n = total * q.den

\* C13: for a round with at least one success the averages, maxima and minima
\* are those of the successful outcomes alone, and failed_conns counts the
\* failed outcomes.
C13_OverSuccesses ==
    mpc = "done" =>
        \A k \in DOMAIN report :
            LET round_data == report[k].v
                S == Successes(round_data)
                st == stats.round_data[k].v
            IN S # {} =>
                /\ IsMean(st.avg_auth_time, SumAuth(round_data, S), Cardinality(S))
                /\ IsMean(st.avg_conn_time, SumConn(round_data, S), Cardinality(S))
                /\ \E j \in S : round_data[j].v.auth_time = st.max_auth_time
                /\ \A j \in S : round_data[j].v.auth_time <= st.max_auth_time
                /\ \E j \in S : round_data[j].v.conn_time = st.max_conn_time
                /\ \A j \in S : round_data[j].v.conn_time <= st.max_conn_time
                /\ \E j \in S : round_data[j].v.auth_time = st.min_auth_time
                /\ \A j \in S : round_data[j].v.auth_time >= st.min_auth_time
                /\ \E j \in S : round_data[j].v.conn_time = st.min_conn_time
                /\ \A j \in S : round_data[j].v.conn_time >= st.min_conn_time
                /\ st.failed_conns = Cardinality(DOMAIN round_data \ S)
                /\ st.failed_conns + Cardinality(S) = Len(round_data)

\* The statistics of a round whose attempt 2 failed and whose attempts 1 and
\* 3 authenticated in 1 and 3 have been computed: the average is 4 / 2.
C13_Witness ==
    /\ mpc = "done"
    /\ Len(report[1].v) = 3
    /\ Successes(report[1].v) = {1, 3}
    /\ report[1].v[1].v.auth_time = 1
    /\ report[1].v[3].v.auth_time = 3
    /\ stats.round_data[1].v.failed_conns = 1
    /\ stats.round_data[1].v.avg_auth_time = TrueDiv(4, 2)

====
